---- MODULE Spec2Model ----
(***************************************************************************)
(* Error handling of invenio_records_resources.resources.errors:           *)
(* the table ErrorHandlersMixin.error_handlers, the validation exception   *)
(* HTTPJSONValidationException and the handler built by                    *)
(* create_pid_redirected_error_handler.  One step of the model is one      *)
(* error raised while a request is served, looked up in the table by the   *)
(* framework and passed to the handler found.                              *)
(***************************************************************************)
EXTENDS Integers, Sequences, FiniteSets, TLC

VARIABLES raised,      \* the error instance raised by the view
          request,     \* the request being served (flask.request)
          outcome,     \* what came out of handling `raised`
          remembered   \* history: one (raised, request, outcome) handled so far

vars == <<raised, request, outcome, remembered>>

(***************************************************************************)
(* Bounds and input domains                                                *)
(***************************************************************************)
MaxErrors == 2          \* longest list of field errors in a ValidationError

None == "None"

Descriptions == {"Revision id provided(1) doesn't match record's one(2)",
                 "Revision id provided(3) doesn't match record's one(4)"}

\* the field/message pairs a validation failure reports
FieldMessages == {<<"title", "Missing data for required field.">>,
                  <<"metadata.title", "Not a valid string.">>}

PidTypes == {"recid", "doi"}

PidValues == {"1", "42"}

(***************************************************************************)
(* Exception classes.  bases[c] is the direct base class of c.             *)
(***************************************************************************)
bases ==
  [c \in {"ValidationError", "RevisionIdMismatchError",
          "QuerystringValidationError", "PermissionDeniedError",
          "PIDDeletedError", "PIDAlreadyExists", "PIDDoesNotExistError",
          "PIDUnregistered", "PIDRedirectedError", "NoResultFound",
          "PersistentIdentifierError", "PIDValueError", "ResolverError",
          "PIDMissingObjectError", "PermissionDeniedErrorSubclass",
          "AttributeError", "Exception"} |->
     CASE c \in {"PIDDoesNotExistError", "PIDAlreadyExists"} -> "PIDValueError"
       [] c \in {"PIDDeletedError", "PIDUnregistered", "PIDRedirectedError",
                 "PIDMissingObjectError"} -> "ResolverError"
       [] c \in {"PIDValueError", "ResolverError"} -> "PersistentIdentifierError"
       [] c = "PermissionDeniedErrorSubclass" -> "PermissionDeniedError"
       [] OTHER -> "Exception"]

Classes == DOMAIN bases

RECURSIVE mro(_)
\* type(e).__mro__ up to Exception, most specific class first
mro(c) == IF c = "Exception" THEN <<c>> ELSE <<c>> \o mro(bases[c])

issubclass(c, d) == \E i \in 1..Len(mro(c)) : mro(c)[i] = d

(***************************************************************************)
(* Values                                                                  *)
(***************************************************************************)
NoPid == [pid_type |-> None, pid_value |-> None]

Pids == [pid_type : PidTypes, pid_value : PidValues]

\* the pid a redirection starts from
SourcePids == [pid_type : PidTypes, pid_value : {"1"}]

NoError == [kind |-> None, description |-> "", messages |-> <<>>,
            pid |-> NoPid, destination_pid |-> NoPid]

\* the kinds a view raises that carry nothing but a description
PlainKinds == Classes \ {"ValidationError", "PIDRedirectedError",
                         "AttributeError", "Exception", "PIDValueError",
                         "ResolverError"}

FieldErrors == UNION {[1..n -> FieldMessages] : n \in 1..MaxErrors}

PlainErrors ==
  {[NoError EXCEPT !.kind = k, !.description = d] :
     k \in PlainKinds, d \in Descriptions}

ValidationErrors ==
  {[NoError EXCEPT !.kind = "ValidationError", !.messages = m] :
     m \in FieldErrors}

PIDRedirectedErrors ==
  {[NoError EXCEPT !.kind = "PIDRedirectedError", !.pid = p,
                   !.destination_pid = q] : p \in SourcePids, q \in Pids}

Errors == PlainErrors \cup ValidationErrors \cup PIDRedirectedErrors

(***************************************************************************)
(* Routing: the application's URL map and werkzeug's URL building          *)
(***************************************************************************)
\* endpoint -> the parts of its rule, [is_dynamic, data] as werkzeug keeps
\* them: a static piece of the path or the name of a path argument
url_map ==
  [endpoint \in {"records.search", "records.read", "files.read"} |->
     CASE endpoint = "records.search" ->
            <<[is_dynamic |-> FALSE, data |-> "/records"]>>
       [] endpoint = "records.read" ->
            <<[is_dynamic |-> FALSE, data |-> "/records/"],
              [is_dynamic |-> TRUE, data |-> "pid_value"]>>
       [] endpoint = "files.read" ->
            <<[is_dynamic |-> FALSE, data |-> "/records/"],
              [is_dynamic |-> TRUE, data |-> "pid_value"],
              [is_dynamic |-> FALSE, data |-> "/files/"],
              [is_dynamic |-> TRUE, data |-> "key"]>>]

NoRequest == [url_rule |-> "NoRequest"]

\* a request matched one rule of the map, or none (url_rule is None)
Requests == [url_rule : DOMAIN url_map \cup {None}]

arguments(rule) ==
  {rule[i].data : i \in {j \in 1..Len(rule) : rule[j].is_dynamic}}

RECURSIVE build_path(_, _)
build_path(rule, values) ==
  IF rule = <<>> THEN ""
  ELSE (IF Head(rule).is_dynamic THEN values[Head(rule).data]
        ELSE Head(rule).data) \o build_path(Tail(rule), values)

RECURSIVE encode_query(_, _, _)
encode_query(keys, values, sep) ==
  IF keys = {} THEN ""
  ELSE LET k == CHOOSE x \in keys : TRUE
       IN sep \o k \o "=" \o values[k]
              \o encode_query(keys \ {k}, values, "&")

\* flask.url_for(endpoint, **values): BuildError when a path argument of the
\* rule is not supplied; values that are no path argument go to the query
url_for(endpoint, values) ==
  LET rule == url_map[endpoint]
  IN IF ~(arguments(rule) \subseteq DOMAIN values)
     THEN [exc |-> "BuildError", url |-> ""]
     ELSE [exc |-> None,
           url |-> build_path(rule, values)
                     \o encode_query(DOMAIN values \ arguments(rule),
                                     values, "?")]

(***************************************************************************)
(* Exceptions serialising to JSON and the responses they give              *)
(***************************************************************************)
NoHeaders == [h \in {} |-> ""]

NoResponse == [status |-> 0, body |-> [h \in {} |-> ""], headers |-> NoHeaders]

\* flask_resources.HTTPJSONException(code=, description=, errors=)
HTTPJSONException(code, description, errors) ==
  [code |-> code, description |-> description, errors |-> errors]

\* HTTPJSONException.get_response(): the status is the code, the body holds
\* status and message, and errors when there are any
get_response(exc) ==
  [status |-> exc.code,
   body |-> IF exc.errors = <<>>
            THEN [status |-> exc.code, message |-> exc.description]
            ELSE [status |-> exc.code, message |-> exc.description,
                  errors |-> exc.errors],
   headers |-> NoHeaders]

\* ..errors.validation_error_to_list_errors: one entry per field/message
\* pair of the validation failure, in the order the failure reports them
validation_error_to_list_errors(exception) ==
  [i \in 1..Len(exception.messages) |->
     [field |-> exception.messages[i][1],
      message |-> exception.messages[i][2]]]

\* the exception keeping only the first entry of the list
HTTPJSONValidationException_first_only(exception) ==
  HTTPJSONException(400, "A validation error occurred.",
                    SubSeq(validation_error_to_list_errors(exception), 1, 1))

HTTPJSONValidationException(exception) ==
  HTTPJSONException(400, "A validation error occurred.",
                    validation_error_to_list_errors(exception))

(***************************************************************************)
(* The handler for PIDRedirectedError                                      *)
(***************************************************************************)
Exception(kind) == [NoError EXCEPT !.kind = kind]

Returned(response) == [type |-> "response", response |-> response,
                       exc |-> NoError]

Raised(exc) == [type |-> "raise", response |-> NoResponse, exc |-> exc]

\* the body of the try block: the exception it ends with (None when it
\* returns) and the response it returns
redirect_try_block(e, req) ==
  IF e.pid.pid_type # e.destination_pid.pid_type
  THEN [exc |-> "AssertionError", response |-> NoResponse]
  ELSE IF req.url_rule = None
  THEN [exc |-> "AttributeError", response |-> NoResponse]
  ELSE LET built == url_for(req.url_rule,
                            [pid_value |-> e.destination_pid.pid_value])
       IN IF built.exc # None
          THEN [exc |-> built.exc, response |-> NoResponse]
          ELSE LET location == built.url
                   data == [status |-> 301,
                            message |-> "Moved Permanently.",
                            location |-> location]
               IN [exc |-> None,
                   response |-> [status |-> data.status,
                                 body |-> data,
                                 headers |-> [Location |-> location]]]

\* the handler building the URL from the source pid
pid_redirected_error_handler_source_pid(e, req) ==
  LET try == redirect_try_block(
               [e EXCEPT !.destination_pid.pid_value = e.pid.pid_value], req)
  IN IF try.exc = None THEN Returned(try.response)
     ELSE IF try.exc \in {"AssertionError", "BuildError", "KeyError"}
     THEN Raised(e)
     ELSE Raised(Exception(try.exc))

\* the handler reading the matched rule before it compares the pid types
pid_redirected_error_handler_rule_first(e, req) ==
  LET try == redirect_try_block(e, req)
  IN IF req.url_rule = None THEN Raised(Exception("AttributeError"))
     ELSE IF try.exc = None THEN Returned(try.response)
     ELSE IF try.exc \in {"AssertionError", "BuildError", "KeyError"}
     THEN Raised(e)
     ELSE Raised(Exception(try.exc))

\* the handler whose except clause leaves BuildError out
pid_redirected_error_handler_build_error_escapes(e, req) ==
  LET try == redirect_try_block(e, req)
  IN IF try.exc = None THEN Returned(try.response)
     ELSE IF try.exc \in {"AssertionError", "KeyError"}
     THEN Raised(e)
     ELSE Raised(Exception(try.exc))

\* the handler answering with the redirection it built last, if any
pid_redirected_error_handler_cached(e, req) ==
  LET try == redirect_try_block(e, req)
  IN IF outcome.type = "response" /\ outcome.response.status = 301
     THEN Returned(outcome.response)
     ELSE IF try.exc = None THEN Returned(try.response)
     ELSE IF try.exc \in {"AssertionError", "BuildError", "KeyError"}
     THEN Raised(e)
     ELSE Raised(Exception(try.exc))

pid_redirected_error_handler(e, req) ==
  LET try == redirect_try_block(e, req)
  IN IF try.exc = None THEN Returned(try.response)
     ELSE IF try.exc \in {"AssertionError", "BuildError", "KeyError"}
     THEN Raised(e)
     ELSE Raised(Exception(try.exc))

(***************************************************************************)
(* ErrorHandlersMixin.error_handlers                                       *)
(***************************************************************************)
\* lambda e: HTTPJSONValidationException(e)
validation_error_lambda(e) == HTTPJSONValidationException(e)

\* the description fixed when the table is built
revision_id_mismatch_lambda_fixed(e) ==
  HTTPJSONException(412, "Revision id mismatch.", <<>>)

\* lambda e: HTTPJSONException(code=412, description=e.description)
revision_id_mismatch_lambda(e) == HTTPJSONException(412, e.description, <<>>)

NoException == HTTPJSONException(0, "", <<>>)

\* create_error_handler(map_func_or_exception) given a function
MapFunc(name) == [handler |-> "error_handler", callable |-> TRUE,
                  func |-> name, exception |-> NoException]

\* create_error_handler(map_func_or_exception) given an exception instance
MapException(exc) == [handler |-> "error_handler", callable |-> FALSE,
                      func |-> None, exception |-> exc]

\* the value registered under each key of the table
registered_handler(c) ==
     CASE c = "ValidationError" -> MapFunc("validation_error_lambda")
       [] c = "RevisionIdMismatchError" ->
            MapFunc("revision_id_mismatch_lambda")
       [] c = "QuerystringValidationError" ->
            MapException(HTTPJSONException(
              400, "Invalid querystring parameters.", <<>>))
       [] c = "PermissionDeniedError" ->
            MapException(HTTPJSONException(403, "Permission denied.", <<>>))
       [] c = "PIDDeletedError" ->
            MapException(HTTPJSONException(
              410, "The record has been deleted.", <<>>))
       [] c = "PIDAlreadyExists" ->
            MapException(HTTPJSONException(
              400, "The persistent identifier is already registered.", <<>>))
       [] c = "PIDDoesNotExistError" ->
            MapException(HTTPJSONException(
              404, "The persistent identifier does not exist.", <<>>))
       [] c = "PIDUnregistered" ->
            MapException(HTTPJSONException(
              404, "The persistent identifier is not registered.", <<>>))
       [] c = "PIDRedirectedError" ->
            [handler |-> "pid_redirected_error_handler", callable |-> FALSE,
             func |-> None, exception |-> NoException]
       [] c = "NoResultFound" ->
            MapException(HTTPJSONException(404, "Not found.", <<>>))

\* the keys of the table
registered_classes ==
  {"ValidationError", "RevisionIdMismatchError",
   "QuerystringValidationError", "PermissionDeniedError", "PIDDeletedError",
   "PIDAlreadyExists", "PIDDoesNotExistError", "PIDUnregistered",
   "PIDRedirectedError", "NoResultFound"}

\* the table with PIDDeletedError answered 404 instead of 410
error_handlers_deleted_as_not_found ==
  [c \in registered_classes |->
     IF c = "PIDDeletedError"
     THEN MapException(HTTPJSONException(
            404, "The record has been deleted.", <<>>))
     ELSE registered_handler(c)]

\* the table with one more key: the base class of the pid errors
error_handlers_with_base_class ==
  [c \in registered_classes \cup {"PersistentIdentifierError"} |->
     IF c = "PersistentIdentifierError"
     THEN MapException(HTTPJSONException(404, "Not found.", <<>>))
     ELSE registered_handler(c)]

error_handlers == [c \in registered_classes |-> registered_handler(c)]

\* the handler taking the description from the error it is given
error_handler_description_of_error(map_func_or_exception, e) ==
  IF ~map_func_or_exception.callable
  THEN Returned(get_response(
         [map_func_or_exception.exception EXCEPT
            !.description = e.description]))
  ELSE Returned(get_response(
         CASE map_func_or_exception.func = "validation_error_lambda" ->
                validation_error_lambda(e)
           [] map_func_or_exception.func = "revision_id_mismatch_lambda" ->
                revision_id_mismatch_lambda(e)))

\* the handler create_error_handler returns: the response of the exception
\* registered, or of the exception the function registered maps e to
error_handler(map_func_or_exception, e) ==
  IF ~map_func_or_exception.callable
  THEN Returned(get_response(map_func_or_exception.exception))
  ELSE Returned(get_response(
         CASE map_func_or_exception.func = "validation_error_lambda" ->
                validation_error_lambda(e)
           [] map_func_or_exception.func = "revision_id_mismatch_lambda" ->
                revision_id_mismatch_lambda(e)))

(***************************************************************************)
(* Dispatch: the framework looks the class of the error up in the table,   *)
(* most specific class first, and calls the handler it finds               *)
(***************************************************************************)
RECURSIVE first_registered(_)
first_registered(classes) ==
  IF classes = <<>> THEN None
  ELSE IF Head(classes) \in DOMAIN error_handlers THEN Head(classes)
  ELSE first_registered(Tail(classes))

find_error_handler(e) == first_registered(mro(e.kind))

NoOutcome == [type |-> None, handler |-> None, response |-> NoResponse,
              exc |-> NoError]

NoMemo == [raised |-> NoError, request |-> NoRequest, outcome |-> NoOutcome,
           earlier |-> FALSE]

Init ==
  /\ raised = NoError
  /\ request = NoRequest
  /\ outcome = NoOutcome
  /\ remembered = NoMemo

\* one error handled; the history variable keeps this one or an earlier one
Handled(e, req, key, result) ==
  /\ raised' = e
  /\ request' = req
  /\ outcome' = [type |-> result.type, handler |-> key,
                 response |-> result.response, exc |-> result.exc]
  /\ \/ remembered' = IF remembered = NoMemo THEN NoMemo
                       ELSE [remembered EXCEPT !.earlier = TRUE]
     \/ remembered' = [raised |-> raised', request |-> request',
                       outcome |-> outcome', earlier |-> FALSE]

\* an error whose class finds a handler made by create_error_handler
DispatchErrorHandler ==
  \E e \in Errors, req \in Requests :
    LET key == find_error_handler(e)
    IN /\ key # None
       /\ error_handlers[key].handler = "error_handler"
       /\ Handled(e, req, key, error_handler(error_handlers[key], e))

\* an error whose class finds the handler of PIDRedirectedError
DispatchPidRedirected ==
  \E e \in Errors, req \in Requests :
    LET key == find_error_handler(e)
    IN /\ key # None
       /\ error_handlers[key].handler = "pid_redirected_error_handler"
       /\ Handled(e, req, key, pid_redirected_error_handler(e, req))

\* an error whose class finds no handler in the table propagates
Unhandled ==
  \E e \in Errors, req \in Requests :
    /\ find_error_handler(e) = None
    /\ Handled(e, req, None,
               [type |-> "propagate", response |-> NoResponse, exc |-> e])

Next == DispatchErrorHandler \/ DispatchPidRedirected \/ Unhandled

Spec == Init /\ [][Next]_vars

TypeOK ==
  /\ raised \in Errors \cup {NoError}
  /\ request \in Requests \cup {NoRequest}
  /\ outcome.type \in {None, "response", "raise", "propagate"}

(***************************************************************************)
(* Properties                                                              *)
(***************************************************************************)
\* an error has been handled in this state
handled == outcome.type # None

\* the earlier handled error kept in the history variable
before == remembered.earlier

\* the status codes of the mapping table
TableStatus ==
  [k \in {"ValidationError", "RevisionIdMismatchError",
          "QuerystringValidationError", "PermissionDeniedError",
          "PIDDeletedError", "PIDAlreadyExists", "PIDDoesNotExistError",
          "PIDUnregistered", "NoResultFound"} |->
     CASE k \in {"ValidationError", "QuerystringValidationError",
                 "PIDAlreadyExists"} -> 400
       [] k = "RevisionIdMismatchError" -> 412
       [] k = "PermissionDeniedError" -> 403
       [] k = "PIDDeletedError" -> 410
       [] OTHER -> 404]

\* the fixed descriptions of the mapping table
TableDescription ==
  [k \in {"QuerystringValidationError", "PermissionDeniedError",
          "PIDDeletedError", "PIDAlreadyExists", "PIDDoesNotExistError",
          "PIDUnregistered", "NoResultFound"} |->
     CASE k = "QuerystringValidationError" ->
            "Invalid querystring parameters."
       [] k = "PermissionDeniedError" -> "Permission denied."
       [] k = "PIDDeletedError" -> "The record has been deleted."
       [] k = "PIDAlreadyExists" ->
            "The persistent identifier is already registered."
       [] k = "PIDDoesNotExistError" ->
            "The persistent identifier does not exist."
       [] k = "PIDUnregistered" ->
            "The persistent identifier is not registered."
       [] k = "NoResultFound" -> "Not found."]

\* the ten kinds of the mapping table
TenKinds == DOMAIN TableStatus \cup {"PIDRedirectedError"}

\* the kinds of the table the class c is, or derives from
Matching(c) == {k \in TenKinds : issubclass(c, k)}

\* among them, the most specific ones
MostSpecific(c) ==
  {k \in Matching(c) : \A j \in Matching(c) : issubclass(k, j)}

redirected == handled /\ raised.kind = "PIDRedirectedError"

same_pid_type == raised.pid.pid_type = raised.destination_pid.pid_type

\* C1: an error of a registered kind other than PIDRedirectedError is
\* answered with the status code the table gives for its kind.
C1_StatusOfTable ==
  (handled /\ raised.kind \in DOMAIN TableStatus) =>
    /\ outcome.type = "response"
    /\ outcome.response.status = TableStatus[raised.kind]
    /\ outcome.response.body.status = TableStatus[raised.kind]

C1_Witness ==
  /\ handled
  /\ raised.kind = "PIDDeletedError"
  /\ outcome.response.status = 410

\* C2: a redirection between pids of one type, on a request whose matched
\* endpoint builds with pid_value, is answered 301 with the body
\* {status: 301, message: 'Moved Permanently.', location: url} and a Location
\* header equal to the location, the url being built from the destination
\* pid's value.
C2_MovedPermanently ==
  (/\ redirected
   /\ same_pid_type
   /\ request.url_rule # None
   /\ url_for(request.url_rule,
              [pid_value |-> raised.destination_pid.pid_value]).exc = None) =>
    LET url == url_for(request.url_rule,
                       [pid_value |-> raised.destination_pid.pid_value]).url
    IN /\ outcome.type = "response"
       /\ outcome.response.status = 301
       /\ outcome.response.body = [status |-> 301,
                                   message |-> "Moved Permanently.",
                                   location |-> url]
       /\ outcome.response.headers = [Location |-> url]
       /\ request.url_rule = "records.read" =>
            url = "/records/" \o raised.destination_pid.pid_value

C2_Witness ==
  /\ redirected
  /\ same_pid_type
  /\ raised.pid.pid_value # raised.destination_pid.pid_value
  /\ request.url_rule = "records.read"
  /\ outcome.response.status = 301
  /\ outcome.response.headers = [Location |-> "/records/42"]

\* C3: a redirection between pids of different types re-raises the error it
\* was given and builds no response, whatever the request's matched rule.
C3_TypeMismatchReraises ==
  (redirected /\ ~same_pid_type) =>
    /\ outcome.type = "raise"
    /\ outcome.exc = raised
    /\ outcome.response = NoResponse

C3_Witness ==
  /\ redirected
  /\ ~same_pid_type
  /\ request.url_rule = None
  /\ outcome.type = "raise"
  /\ outcome.exc = raised

\* C4: a redirection between pids of one type whose URL cannot be built
\* re-raises the PIDRedirectedError it was given, not the BuildError, and
\* returns no response.
C4_BuildErrorReraises ==
  (/\ redirected
   /\ same_pid_type
   /\ request.url_rule # None
   /\ url_for(request.url_rule,
              [pid_value |-> raised.destination_pid.pid_value]).exc
        = "BuildError") =>
    /\ outcome.type = "raise"
    /\ outcome.exc = raised
    /\ outcome.exc.kind = "PIDRedirectedError"
    /\ outcome.response = NoResponse

C4_Witness ==
  /\ redirected
  /\ same_pid_type
  /\ request.url_rule = "files.read"
  /\ outcome.type = "raise"
  /\ outcome.exc = raised

\* C5: a redirection handled while the request has no matched rule
\* (request.url_rule is None) re-raises the PIDRedirectedError it was given;
\* no error of another kind leaves the handler.
C5_MissingRuleReraises ==
  (redirected /\ request.url_rule = None) =>
    /\ outcome.type = "raise"
    /\ outcome.exc = raised

\* C6: a validation error is answered 400 with an errors list of as many
\* entries as the failure has field/message pairs, in the failure's order.
C6_ValidationErrorsList ==
  (handled /\ raised.kind = "ValidationError") =>
    /\ outcome.type = "response"
    /\ outcome.response.status = 400
    /\ "errors" \in DOMAIN outcome.response.body
    /\ Len(outcome.response.body.errors) = Len(raised.messages)
    /\ \A i \in 1..Len(raised.messages) :
         /\ outcome.response.body.errors[i].field = raised.messages[i][1]
         /\ outcome.response.body.errors[i].message = raised.messages[i][2]

C6_Witness ==
  /\ handled
  /\ raised.kind = "ValidationError"
  /\ Len(raised.messages) = 2
  /\ raised.messages[1] # raised.messages[2]
  /\ Len(outcome.response.body.errors) = 2

\* C7: a revision mismatch is answered 412 with the description of the
\* error instance raised.
C7_RevisionDescription ==
  (handled /\ raised.kind = "RevisionIdMismatchError") =>
    /\ outcome.type = "response"
    /\ outcome.response.status = 412
    /\ outcome.response.body.message = raised.description

C7_Witness ==
  /\ handled
  /\ before
  /\ raised.kind = "RevisionIdMismatchError"
  /\ remembered.raised.kind = "RevisionIdMismatchError"
  /\ remembered.raised.description # raised.description
  /\ remembered.outcome.response.body.message = remembered.raised.description
  /\ outcome.response.body.message = raised.description

\* C8: an error that is of none of the ten registered kinds finds no
\* handler: no response is built and the error propagates as it was raised.
C8_UnregisteredPropagates ==
  (handled /\ Matching(raised.kind) = {}) =>
    /\ outcome.type = "propagate"
    /\ outcome.handler = None
    /\ outcome.response = NoResponse
    /\ outcome.exc = raised

C8_Witness ==
  /\ handled
  /\ raised.kind = "PersistentIdentifierError"
  /\ outcome.type = "propagate"
  /\ outcome.exc = raised

\* C9: the seven kinds with a fixed description are answered with the text
\* of the table, whatever the error instance holds and whatever was handled
\* before.
C9_FixedDescription ==
  (handled /\ raised.kind \in DOMAIN TableDescription) =>
    /\ outcome.type = "response"
    /\ outcome.response.body =
         [status |-> TableStatus[raised.kind],
          message |-> TableDescription[raised.kind]]

C9_Witness ==
  /\ handled
  /\ before
  /\ raised.kind = "PIDDeletedError"
  /\ remembered.raised.kind = "PIDDeletedError"
  /\ remembered.raised.description # raised.description
  /\ remembered.outcome.response.body.message = "The record has been deleted."
  /\ outcome.response.body.message = "The record has been deleted."

C10_WitnessSubclass ==
  /\ handled
  /\ raised.kind = "PermissionDeniedErrorSubclass"
  /\ outcome.handler = "PermissionDeniedError"

====
